---- MODULE Spec2Model ----
(***************************************************************************)
(* LegendreBaseline (src/src/lpf/baselines/legendrebaseline.py): the       *)
(* Legendre-polynomial baseline mixin of PyTransit's log-posterior class.  *)
(* The engine object is the record `self`; _init_p_baseline builds the     *)
(* per-curve Legendre bases and registers the baseline parameter block,    *)
(* baseline(pvp) evaluates the baseline for a batch of parameter vectors.  *)
(*                                                                         *)
(* Floating-point values are modelled as exact rationals <<n, d>> (d > 0,  *)
(* lowest terms) extended with the IEEE specials the code can produce:     *)
(* NaN = <<0, 0>> and the infinities <<1, 0>>, <<-1, 0>>.  Rounding is not *)
(* modelled.  numpy arrays are records [shape, flat] in row-major order.   *)
(***************************************************************************)
EXTENDS Integers, Sequences, FiniteSets, TLC

VARIABLES
    self,   \* the LegendreBaseline object
    arg,    \* the array the caller passed to the last baseline call
    pvp,    \* the caller's array as the last baseline call left it
    ret,    \* outcome of the last call: returned value or raised exception
    op,     \* the last method called
    memo    \* outcome of the first baseline(Probe) call since the last (re)initialisation

vars == <<self, arg, pvp, ret, op, memo>>

(***************************************************************************)
(* Bounds of the model.                                                    *)
(***************************************************************************)
MaxLC == 2        \* light curves in a data set
MaxPts == 3       \* time points per light curve
MinPts == MaxPts - 1
MaxDeg == 2       \* nlegendre
MaxPre == 1       \* parameters the host registered before the baseline block
MaxSetups == 2    \* calls of _init_p_baseline
Cadences == {0, 1}       \* spacing of a curve's timestamps (0: one repeated value)
EpochGap == 10           \* curve i starts at time EpochGap * i
ScalarPairs == << <<2, -1>>, <<-1, 3>> >>   \* (a, b) of the linear combinations

(***************************************************************************)
(* Float arithmetic (numpy double arithmetic, without rounding).           *)
(***************************************************************************)
Abs(n) == IF n < 0 THEN -n ELSE n

Sgn(n) == IF n < 0 THEN -1 ELSE IF n > 0 THEN 1 ELSE 0

RECURSIVE GCD(_, _)
GCD(a, b) == IF b = 0 THEN a ELSE GCD(b, a % b)

Norm(n, d) ==
    IF d = 0 THEN <<Sgn(n), 0>>
    ELSE LET g == GCD(Abs(n), Abs(d))
             s == IF d < 0 THEN -1 ELSE 1
         IN  <<s * (n \div g), s * (d \div g)>>

NaN == <<0, 0>>

Rat(i) == <<i, 1>>

IsFinite(x) == x[2] # 0

\* x + y; inf + inf = inf, inf + (-inf) = NaN, NaN + y = NaN
Add(x, y) ==
    IF x[2] = 0 /\ y[2] = 0 THEN (IF x = y THEN x ELSE NaN)
    ELSE Norm(x[1] * y[2] + y[1] * x[2], x[2] * y[2])

Neg(x) == <<-x[1], x[2]>>

Sub(x, y) == Add(x, Neg(y))

\* x * y; inf * 0 = NaN, NaN * y = NaN
Mul(x, y) == Norm(x[1] * y[1], x[2] * y[2])

\* x / y with numpy's semantics: 0/0 = NaN, x/0 = +-inf (a warning, no exception)
Div(x, y) == Norm(x[1] * y[2], x[2] * y[1])

Less(x, y) == x[1] * y[2] < y[1] * x[2]

RECURSIVE SumSeq(_)
SumSeq(s) == IF s = <<>> THEN Rat(0) ELSE Add(SumSeq(SubSeq(s, 1, Len(s) - 1)), s[Len(s)])

\* ndarray.mean() of a 1-D array
Mean(t) == Div(SumSeq(t), Rat(Len(t)))

RECURSIVE MaxSeq(_)
MaxSeq(s) ==
    IF Len(s) = 1 THEN s[1]
    ELSE LET m == MaxSeq(SubSeq(s, 1, Len(s) - 1))
         IN  IF Less(m, s[Len(s)]) THEN s[Len(s)] ELSE m

RECURSIVE MinSeq(_)
MinSeq(s) ==
    IF Len(s) = 1 THEN s[1]
    ELSE LET m == MinSeq(SubSeq(s, 1, Len(s) - 1))
         IN  IF Less(s[Len(s)], m) THEN s[Len(s)] ELSE m

\* ndarray.ptp(): peak to peak, max - min
ptp(s) == Sub(MaxSeq(s), MinSeq(s))

\* numpy.concatenate of a non-empty list of 1-D arrays
RECURSIVE concatenate(_)
concatenate(ss) ==
    IF ss = <<>> THEN <<>> ELSE concatenate(SubSeq(ss, 1, Len(ss) - 1)) \o ss[Len(ss)]

\* a[lo:hi] of a Python sequence, 0 <= lo <= hi, clipped to the length
PySlice(s, lo, hi) == SubSeq(s, lo + 1, IF hi < Len(s) THEN hi ELSE Len(s))

(***************************************************************************)
(* numpy.polynomial.legendre.legvander(x, deg) for a 1-D x: one row per    *)
(* point, columns P_0(x) .. P_deg(x) by the three-term recurrence          *)
(*   v[0] = x*0 + 1,  v[1] = x,                                            *)
(*   v[i] = (v[i-1]*x*(2i-1) - v[i-2]*(i-1)) / i.                          *)
(***************************************************************************)
RECURSIVE legrow(_, _)
legrow(x, deg) ==
    IF deg = 0 THEN << Add(Mul(x, Rat(0)), Rat(1)) >>
    ELSE IF deg = 1 THEN << Add(Mul(x, Rat(0)), Rat(1)), x >>
    ELSE LET v == legrow(x, deg - 1)
         IN  Append(v, Div(Sub(Mul(Mul(v[deg], x), Rat(2 * deg - 1)),
                               Mul(v[deg - 1], Rat(deg - 1))),
                           Rat(deg)))

legvander(t, deg) == [j \in 1..Len(t) |-> legrow(t[j], deg)]

\* seg @ leg.T : a vector of len(seg) coefficients times the transposed basis
RECURSIVE dotk(_, _, _)
dotk(seg, row, k) == IF k = 0 THEN Rat(0) ELSE Add(dotk(seg, row, k - 1), Mul(seg[k], row[k]))

dot(seg, row) == dotk(seg, row, Len(seg))

\* a variant with the intercept fixed at 1: 1 + seg[1:] @ leg[:, 1:].T
matmulT_affine(seg, leg) ==
    [j \in 1..Len(leg) |-> Sub(Add(Rat(1), dot(seg, leg[j])), Mul(seg[1], leg[j][1]))]

matmulT(seg, leg) == [j \in 1..Len(leg) |-> dot(seg, leg[j])]

(***************************************************************************)
(* numpy arrays.                                                           *)
(***************************************************************************)
Arr1(v) == [shape |-> <<Len(v)>>, flat |-> v]

Arr2(rows, ncol) == [shape |-> <<Len(rows), ncol>>, flat |-> concatenate(rows)]

EmptyArr == Arr1(<<>>)

\* numpy.atleast_2d: a 0-d array becomes (1, 1), a 1-D array of length n becomes
\* (1, n), arrays of two dimensions are returned as they are
\* a variant that promotes a 1-D array to a column, a[:, None]
atleast_2d_column(a) ==
    IF Len(a.shape) = 1 THEN [shape |-> a.shape \o <<1>>, flat |-> a.flat] ELSE a

atleast_2d(a) ==
    IF Len(a.shape) = 0 THEN [shape |-> <<1, 1>>, flat |-> a.flat]
    ELSE IF Len(a.shape) = 1 THEN [shape |-> <<1>> \o a.shape, flat |-> a.flat]
    ELSE a

zeros(B, T) == [shape |-> <<B, T>>, flat |-> [k \in 1..(B * T) |-> Rat(0)]]

\* row b (1-based) of a 2-D array: what iterating over the array yields
Row(a, b) == SubSeq(a.flat, (b - 1) * a.shape[2] + 1, b * a.shape[2])

(***************************************************************************)
(* Outcomes of a call: a returned value or a raised exception.             *)
(***************************************************************************)
Return(v) == [kind |-> "ok", value |-> v]

Raise(e) == [kind |-> e, value |-> EmptyArr]

NoCall == [kind |-> "none", value |-> EmptyArr]

(***************************************************************************)
(* LegendreBaseline.__init__.  isNone holds the attributes whose value is  *)
(* None; attrs holds the attributes created outside __init__ (an attribute *)
(* not in attrs does not exist, reading it raises AttributeError).         *)
(***************************************************************************)
init(nlegendre) ==
    [nlegendre |-> nlegendre,
     times     |-> <<>>,
     timea     |-> <<>>,
     lcslices  |-> <<>>,
     nlc       |-> 0,
     ps        |-> [n |-> 0, blocks |-> <<>>],
     isNone    |-> {"timea", "lcslices", "ps"},
     attrs     |-> {},
     mtimes    |-> <<>>,
     windows   |-> NaN,
     legs      |-> <<>>,
     ofluxa    |-> "",
     sl_bl     |-> <<0, 0>>,
     start_bl  |-> 0]

(***************************************************************************)
(* The parameter set of the host (pytransit.param.ParameterSet), of which  *)
(* the engine uses add_lightcurve_block and blocks[-1].slice / .start:     *)
(* blocks are appended contiguously to one flat parameter vector.          *)
(***************************************************************************)
add_lightcurve_block(ps, name, pplc, nlc, parameters) ==
    LET start == ps.n
        stop  == ps.n + Len(parameters)
    IN  [n      |-> stop,
         blocks |-> Append(ps.blocks,
                           [name |-> name, start |-> start, stop |-> stop,
                            slice |-> <<start, stop>>,
                            pplc |-> pplc, nlc |-> nlc, parameters |-> parameters])]

\* LParameter(name, description, unit, NP(mean, std), bounds=(lo, hi))
LParameter(name, description, mean, std, lo, hi) ==
    [name |-> name, description |-> description, unit |-> "",
     prior |-> [kind |-> "NP", mean |-> mean, std |-> std], bounds |-> <<lo, hi>>]

\* a variant that declares the coefficients before the intercept
bls_intercept_last(tn, nlegendre) ==
    [ipoly \in 1..nlegendre |->
          [name |-> "bls_" \o ToString(tn) \o "_" \o ToString(ipoly),
           description |-> "bl_c_" \o ToString(tn) \o "_" \o ToString(ipoly), unit |-> "",
           prior |-> [kind |-> "NP", mean |-> Rat(0), std |-> <<1, 1000>>],
           bounds |-> << <<-1, 10>>, <<1, 10>> >>]]
    \o << [name |-> "bli_" \o ToString(tn), description |-> "bl_intercept_" \o ToString(tn),
           unit |-> "", prior |-> [kind |-> "NP", mean |-> Rat(1), std |-> <<1, 100>>],
           bounds |-> << <<49, 50>>, <<51, 50>> >>] >>

\* the declarations of curve tn: the intercept, then the coefficients 1..nlegendre
bls_of(tn, nlegendre) ==
    << LParameter("bli_" \o ToString(tn), "bl_intercept_" \o ToString(tn),
                  Rat(1), <<1, 100>>, <<49, 50>>, <<51, 50>>) >>
    \o [ipoly \in 1..nlegendre |->
          LParameter("bls_" \o ToString(tn) \o "_" \o ToString(ipoly),
                     "bl_c_" \o ToString(tn) \o "_" \o ToString(ipoly),
                     Rat(0), <<1, 1000>>, <<-1, 10>>, <<1, 10>>)]

\* bls after the loop over range(nlc)
bls_all(nlc, nlegendre) == concatenate([i \in 1..nlc |-> bls_of(i - 1, nlegendre)])

(***************************************************************************)
(* LegendreBaseline._init_p_baseline: the engine after the call and the    *)
(* call's outcome.  An exception leaves the attributes assigned before it. *)
(***************************************************************************)
center(t) == LET m == Mean(t) IN [j \in 1..Len(t) |-> Sub(t[j], m)]

\* a variant that divides every curve by its own span
scale_own(t, window) == [j \in 1..Len(t) |-> Div(t[j], ptp(t))]

scale(t, window) == [j \in 1..Len(t) |-> Div(t[j], window)]

init_p_baseline(s) ==
    LET mt0 == [i \in 1..Len(s.times) |-> center(s.times[i])]
        s1  == [s EXCEPT !.mtimes = mt0, !.attrs = @ \cup {"mtimes"}]
    IN
    IF mt0 = <<>> THEN [self |-> s1, ret |-> Raise("ValueError")]   \* concatenate([])
    ELSE
    LET window == ptp(concatenate(mt0))
        mt1    == [i \in 1..Len(mt0) |-> scale(mt0[i], window)]
        legs   == [i \in 1..Len(mt1) |-> legvander(mt1[i], s.nlegendre)]
        s2     == [s1 EXCEPT !.windows = window, !.mtimes = mt1, !.legs = legs,
                             !.attrs = @ \cup {"windows", "legs"}]
    IN
    IF "ofluxa" \notin s.attrs THEN [self |-> s2, ret |-> Raise("AttributeError")]
    ELSE IF "ps" \in s.isNone
    THEN [self |-> [s2 EXCEPT !.ofluxa = "d"], ret |-> Raise("AttributeError")]
    ELSE
    LET ps2  == add_lightcurve_block(s.ps, "baseline", s.nlegendre + 1, s.nlc,
                                     bls_all(s.nlc, s.nlegendre))
        last == ps2.blocks[Len(ps2.blocks)]
    IN  [self |-> [s2 EXCEPT !.ofluxa = "d", !.ps = ps2,
                             !.sl_bl = last.slice, !.start_bl = last.start,
                             !.attrs = @ \cup {"_sl_bl", "_start_bl"}],
         ret  |-> Return(EmptyArr)]

(***************************************************************************)
(* LegendreBaseline.baseline: the engine and the caller's array after the  *)
(* call, and the call's outcome.                                           *)
(***************************************************************************)
\* bl[itr*(nlegendre+1) : (itr+1)*(nlegendre+1)], itr counted from 0
\* a variant whose stride forgets the intercept: bl[itr*nlegendre : ...]
bl_segment_stride(bl, itr, nlegendre) == PySlice(bl, itr * nlegendre, itr * nlegendre + nlegendre + 1)

bl_segment(bl, itr, nlegendre) == PySlice(bl, itr * (nlegendre + 1), (itr + 1) * (nlegendre + 1))

\* fbl[ipv, sl] = vals for the slice sl = <<start, stop>> of one output row
assign_slice(row, sl, vals) ==
    [k \in 1..Len(row) |-> IF sl[1] < k /\ k <= sl[2] THEN vals[k - sl[1]] ELSE row[k]]

\* one pass of the inner loop over the light curves, for the 2-D row pv
RECURSIVE fill_row(_, _, _, _)
fill_row(s, bl, row, itr) ==
    IF itr = 0 THEN row
    ELSE assign_slice(fill_row(s, bl, row, itr - 1), s.lcslices[itr],
                      matmulT(bl_segment(bl, itr - 1, s.nlegendre), s.legs[itr]))

\* the value baseline returns, or the exception it raises
fbl_of(s, a) ==
    LET p2 == atleast_2d(a)
        B  == p2.shape[1]
        T  == Len(s.timea)
        bl(ipv) == PySlice(Row(p2, ipv), s.sl_bl[1], s.sl_bl[2])
    IN
    IF "timea" \in s.isNone THEN Raise("AttributeError")          \* None.size
    ELSE IF B = 0 THEN Return(zeros(0, T))
    ELSE IF "_sl_bl" \notin s.attrs THEN Raise("AttributeError")
    ELSE IF "lcslices" \in s.isNone THEN Raise("TypeError")
    ELSE IF \E ipv \in 1..B, itr \in 1..Len(s.lcslices) :
               Len(bl_segment(bl(ipv), itr - 1, s.nlegendre)) # s.nlegendre + 1
         THEN Raise("ValueError")                                 \* matmul shape mismatch
    ELSE Return(Arr2([ipv \in 1..B |->
                        fill_row(s, bl(ipv), zeros(1, T).flat, Len(s.lcslices))], T))

\* a variant that promotes the caller's array in place and consumes the slice map
baseline_inplace(s, a) ==
    [self |-> [s EXCEPT !.lcslices = <<>>], pvp |-> atleast_2d(a), ret |-> fbl_of(s, a)]

\* pvp is rebound to a new local array, fbl is freshly allocated, self is only read
baseline(s, a) == [self |-> s, pvp |-> a, ret |-> fbl_of(s, a)]

(***************************************************************************)
(* The host log-posterior object loads the data before the baseline is     *)
(* initialised: the times of the nlc curves, their concatenation, the      *)
(* slice of every curve in it, the observed fluxes and the parameter set.  *)
(***************************************************************************)
curve(i, len, step) == [j \in 1..len |-> Rat(EpochGap * (i - 1) + (j - 1) * step)]

RECURSIVE slices(_, _)
slices(times, i) ==
    IF i = 0 THEN <<>>
    ELSE LET prev == slices(times, i - 1)
             lo   == IF i = 1 THEN 0 ELSE prev[i - 1][2]
         IN  Append(prev, <<lo, lo + Len(times[i])>>)

init_data(s, times, npre) ==
    [s EXCEPT !.times = times, !.timea = concatenate(times),
              !.lcslices = slices(times, Len(times)), !.nlc = Len(times),
              !.ps = [n |-> npre, blocks |-> <<>>],
              !.ofluxa = "f", !.isNone = {}, !.attrs = @ \cup {"ofluxa"}]

\* the first curve has MinPts..MaxPts points, the later ones MaxPts
DataSets ==
    { [i \in 1..nlc |-> curve(i, IF i = 1 THEN len1 ELSE MaxPts, step)] :
        nlc \in 1..MaxLC, len1 \in MinPts..MaxPts, step \in Cadences }

(***************************************************************************)
(* The parameter batches the caller passes to baseline.                    *)
(***************************************************************************)
ParamLen(s) == IF "ps" \in s.isNone THEN 1 ELSE s.ps.n

Ones(L) == [i \in 1..L |-> Rat(1)]

Ramp(L) == [i \in 1..L |-> Rat(i)]

Alt(L) == [i \in 1..L |-> Rat(IF i % 2 = 0 THEN -1 ELSE 2)]

\* intercepts 1 and coefficients 0 inside the baseline block, junk outside it
Neutral(s, junk) ==
    [i \in 1..ParamLen(s) |->
        IF i <= s.sl_bl[1] \/ i > s.sl_bl[2] THEN Rat(junk)
        ELSE Rat(IF (i - 1 - s.sl_bl[1]) % (s.nlegendre + 1) = 0 THEN 1 ELSE 0)]

LinComb(ab, p1, p2) ==
    [i \in 1..Len(p1) |-> Add(Mul(Rat(ab[1]), p1[i]), Mul(Rat(ab[2]), p2[i]))]

Triple(ab, p1, p2) == Arr2(<<p1, p2, LinComb(ab, p1, p2)>>, Len(p1))

Batches(s) ==
    LET L == ParamLen(s)
    IN  {Arr1(Neutral(s, 1)),
         Arr1(Ramp(L)), Arr2(<<Ramp(L)>>, L),
         Arr1(Ones(L + 1)),
         zeros(0, L),
         Triple(ScalarPairs[1], Ramp(L), Neutral(s, 0)),
         Triple(ScalarPairs[2], Alt(L), Ramp(L))}
        \cup (IF L = 0 THEN {} ELSE {Arr2(<<Ones(L - 1)>>, L - 1)})

Probe(s) == Arr1(Ramp(ParamLen(s)))

NoMemo == [valid |-> FALSE, between |-> FALSE, ret |-> NoCall]

(***************************************************************************)
(* The state machine.                                                      *)
(***************************************************************************)
Init ==
    /\ \E n \in 0..MaxDeg : self = init(n)
    /\ arg = EmptyArr
    /\ pvp = EmptyArr
    /\ ret = NoCall
    /\ op = "__init__"
    /\ memo = NoMemo

InitData ==
    /\ "timea" \in self.isNone
    /\ \E times \in DataSets, npre \in {0, MaxPre} : self' = init_data(self, times, npre)
    /\ op' = "init_data"
    /\ ret' = Return(EmptyArr)
    /\ memo' = NoMemo
    /\ UNCHANGED <<arg, pvp>>

Setup ==
    /\ Len(self.ps.blocks) < MaxSetups
    /\ LET r == init_p_baseline(self)
       IN  /\ r.self # self
           /\ self' = r.self
           /\ ret' = r.ret
    /\ op' = "_init_p_baseline"
    /\ memo' = NoMemo
    /\ UNCHANGED <<arg, pvp>>

Evaluate ==
    \E a \in Batches(self) :
        LET r == baseline(self, a)
        IN  /\ self' = r.self
            /\ arg' = a
            /\ pvp' = r.pvp
            /\ ret' = r.ret
            /\ op' = "baseline"
            /\ memo' = IF ~memo.valid
                       THEN (IF a = Probe(self)
                             THEN [valid |-> TRUE, between |-> FALSE, ret |-> r.ret]
                             ELSE memo)
                       ELSE [memo EXCEPT !.between = @ \/ a # Probe(self)]

Next == InitData \/ Setup \/ Evaluate

Spec == Init /\ [][Next]_vars

(***************************************************************************)
(* Properties.  The helpers below read the last call from the state: the   *)
(* batch passed (arg), its rows, and the rows of the returned matrix.      *)
(***************************************************************************)
SetupDone == "_sl_bl" \in self.attrs

NeverSetUp == "mtimes" \notin self.attrs

P == self.ps.n

T == Len(self.timea)

ArgCols == arg.shape[Len(arg.shape)]

ArgRows == IF Len(arg.shape) = 1 THEN 1 ELSE arg.shape[1]

ArgRow(b) == SubSeq(arg.flat, (b - 1) * ArgCols + 1, b * ArgCols)

RetRow(b) == SubSeq(ret.value.flat, (b - 1) * T + 1, b * T)

InBlock(i) == self.start_bl < i /\ i <= self.start_bl + self.nlc * (self.nlegendre + 1)

IsIntercept(i) == InBlock(i) /\ (i - 1 - self.start_bl) % (self.nlegendre + 1) = 0

\* intercept = 1 and polynomial coefficients = 0 for every curve
IsNeutralRow(row) ==
    \A i \in 1..Len(row) : InBlock(i) => row[i] = Rat(IF IsIntercept(i) THEN 1 ELSE 0)

Scalars == {-1, 2, 3}

\* C1: after setup, baseline of a row with intercept 1 and coefficients 0 for every
\* curve is exactly 1 at every (row, time point) entry.
C1_NeutralBaselineIsOne ==
    (op = "baseline" /\ SetupDone /\ ArgCols = P
        /\ \A b \in 1..ArgRows : IsNeutralRow(ArgRow(b)))
    => /\ ret.kind = "ok"
       /\ ret.value.shape = <<ArgRows, T>>
       /\ \A k \in 1..Len(ret.value.flat) : ret.value.flat[k] = Rat(1)

\* The restriction of C1 to data sets whose global window is not zero.
NeutralBaselineIsOneOnNonzeroWindow == self.windows # Rat(0) => C1_NeutralBaselineIsOne

\* C2: baseline called on an engine on which _init_p_baseline never ran raises
\* ShapeMismatchError.
C2_EvaluateBeforeSetupRaisesShapeMismatch ==
    (op = "baseline" /\ NeverSetUp) => ret.kind = "ShapeMismatchError"

\* C3: _init_p_baseline fails with DegenerateWindowError when the global window is
\* zero, building no basis matrices and registering no parameter block.
C3_ZeroWindowRaisesDegenerateWindow ==
    (op = "_init_p_baseline" /\ "windows" \in self.attrs /\ self.windows = Rat(0))
    => /\ ret.kind = "DegenerateWindowError"
       /\ self.legs = <<>>
       /\ self.ps.blocks = <<>>

\* C4: after setup, baseline fails with ShapeMismatchError for every batch whose
\* column count differs from the parameter-vector length.
C4_WrongColumnCountRaisesShapeMismatch ==
    (op = "baseline" /\ SetupDone /\ self.windows # Rat(0) /\ ArgRows > 0 /\ ArgCols # P)
    => ret.kind = "ShapeMismatchError"

\* C5: every successful _init_p_baseline call appends exactly one block, "baseline",
\* with nlc*(nlegendre+1) declarations ordered curve by curve, intercept first and
\* then the coefficients of degree 1..nlegendre, with size nlegendre+1 per curve and
\* nlc curves, and stores the slice and start of that block; a failing call
\* registers nothing.
C5_SetupRegistersBlockOnce ==
    [][ op' = "_init_p_baseline" =>
        IF ret'.kind = "ok"
        THEN LET old == self.ps.blocks
                 new == self'.ps.blocks
                 blk == new[Len(new)]
                 n1  == self'.nlegendre + 1
             IN  /\ Len(new) = Len(old) + 1
                 /\ SubSeq(new, 1, Len(old)) = old
                 /\ blk.name = "baseline"
                 /\ blk.pplc = n1
                 /\ blk.nlc = self'.nlc
                 /\ Len(blk.parameters) = self'.nlc * n1
                 /\ \A i \in 0..(self'.nlc - 1) :
                       /\ blk.parameters[i * n1 + 1].name = "bli_" \o ToString(i)
                       /\ blk.parameters[i * n1 + 1].description = "bl_intercept_" \o ToString(i)
                       /\ blk.parameters[i * n1 + 1].prior.mean = Rat(1)
                       /\ \A k \in 1..self'.nlegendre :
                             /\ blk.parameters[i * n1 + 1 + k].name
                                    = "bls_" \o ToString(i) \o "_" \o ToString(k)
                             /\ blk.parameters[i * n1 + 1 + k].prior.mean = Rat(0)
                 /\ blk.start = self.ps.n
                 /\ blk.slice = <<self.ps.n, self.ps.n + self'.nlc * n1>>
                 /\ self'.sl_bl = blk.slice
                 /\ self'.start_bl = blk.start
        ELSE self'.ps = self.ps ]_vars

C5_Witness ==
    /\ op = "_init_p_baseline" /\ ret.kind = "ok"
    /\ Len(self.ps.blocks) = 2 /\ self.nlc = 2 /\ self.nlegendre = 2
    /\ self.ps.blocks[1].start > 0

C7_Linear ==
    (op = "baseline" /\ SetupDone /\ ArgCols = P /\ ret.kind = "ok")
    => \A i, j, k \in 1..ArgRows : \A a, b \in Scalars :
          (i # j /\ ArgRow(k) = LinComb(<<a, b>>, ArgRow(i), ArgRow(j)))
          => RetRow(k) = LinComb(<<a, b>>, RetRow(i), RetRow(j))

C7_Witness ==
    /\ op = "baseline" /\ SetupDone /\ ArgCols = P /\ ret.kind = "ok"
    /\ ArgRows = 3 /\ self.nlc = 2 /\ self.nlegendre = 2 /\ self.windows # Rat(0)
    /\ ArgRow(3) = LinComb(<<-1, 3>>, ArgRow(1), ArgRow(2))
    /\ ArgRow(1) # ArgRow(2)
    /\ \E x, y \in 1..T : RetRow(3)[x] # RetRow(3)[y]

\* C8: after setup, a 1-D parameter vector of length P is never an error and gives
\* the (1, T) matrix that the (1, P) batch holding the same vector gives.
C8_OneDSameAsSingleRow ==
    (op = "baseline" /\ SetupDone /\ Len(arg.shape) = 1 /\ arg.shape[1] = P)
    => /\ ret.kind = "ok"
       /\ ret.value.shape = <<1, T>>
       /\ ret = baseline(self, [shape |-> <<1, P>>, flat |-> arg.flat]).ret

C8_Witness ==
    /\ op = "baseline" /\ SetupDone /\ Len(arg.shape) = 1 /\ arg.shape[1] = P
    /\ self.nlc = 2 /\ self.nlegendre = 2 /\ self.windows # Rat(0)
    /\ ret.kind = "ok" /\ \E x, y \in 1..T : RetRow(1)[x] # RetRow(1)[y]

\* C9: a baseline call writes neither the engine (bases, window, normalised times,
\* slice map, block slice and start) nor the caller's batch, and a repeated call
\* with the same batch returns what the first returned, whatever was evaluated in
\* between.
C9_EvaluateWritesNothing ==
    [][ op' = "baseline" =>
          /\ self' = self
          /\ pvp' = arg'
          /\ (memo'.valid /\ arg' = Probe(self')) => ret' = memo'.ret ]_vars

C9_Witness ==
    /\ op = "baseline" /\ SetupDone /\ self.windows # Rat(0)
    /\ memo.valid /\ memo.between /\ arg = Probe(self) /\ ret.kind = "ok"

\* C10: for a (B, P) batch the result has shape (B, T), and row b at curve i's index
\* range is the product of row b's coefficients at block positions
\* i*(nlegendre+1) .. (i+1)*(nlegendre+1)-1 with curve i's basis matrix; the ranges
\* of the curves tile the T time points.
C10_RowsAndCurves ==
    (op = "baseline" /\ SetupDone /\ ArgCols = P)
    => /\ ret.kind = "ok"
       /\ ret.value.shape = <<ArgRows, T>>
       /\ \A x \in 1..T :
             Cardinality({i \in 1..self.nlc :
                            self.lcslices[i][1] < x /\ x <= self.lcslices[i][2]}) = 1
       /\ \A b \in 1..ArgRows, i \in 1..self.nlc :
             LET lo   == self.lcslices[i][1]
                 hi   == self.lcslices[i][2]
                 n1   == self.nlegendre + 1
                 coef == SubSeq(ArgRow(b), self.start_bl + (i - 1) * n1 + 1,
                                self.start_bl + i * n1)
             IN  /\ hi - lo = Len(self.legs[i])
                 /\ \A j \in 1..(hi - lo) :
                       RetRow(b)[lo + j]
                         = SumSeq([k \in 1..n1 |-> Mul(coef[k], self.legs[i][j][k])])

C10_Witness ==
    /\ op = "baseline" /\ SetupDone /\ ArgCols = P /\ ret.kind = "ok"
    /\ ArgRows = 3 /\ self.nlc = 2 /\ self.nlegendre = 2 /\ self.start_bl > 0
    /\ self.windows # Rat(0)
    /\ Len(self.times[1]) # Len(self.times[2])
    /\ \E x, y \in 1..T : RetRow(2)[x] # RetRow(2)[y]

====
